---- MODULE Spec2Model ----
(***************************************************************************)
(* vector-race: contour tracing and pre-rendering of the tile map.         *)
(*                                                                         *)
(* The model follows View::pre_render (src/src/interface.rs) statement by  *)
(* statement: the cell range, the discovery of the border pairs, the       *)
(* right-hand wall-following walk that turns the pairs into closed loops,  *)
(* and the fill of the pixel buffer with the signed distance functions of  *)
(* src/src/interface/maths.rs.  GameMap (src/src/game/map.rs) is the       *)
(* sparse terrain map; Side the four axis directions.                      *)
(***************************************************************************)
EXTENDS Integers, Sequences, FiniteSets, TLC

\* ------------------------------------------------------------------ bounds
\* Maps of one kind populate any subset of the box 0..Width-1 x 0..Height-1.
Width == 3
Height == 3
\* Maps that mix all the modelled tiles (explicit Empty included) populate any
\* subset of the box 0..MixedWidth-1 x 0..MixedHeight-1.
MixedWidth == 2
MixedHeight == 2
\* The pixel buffer is evaluated at the pixels whose two indices are multiples
\* of PixelStep.
PixelStep == 64

Cells == (0 .. Width - 1) \X (0 .. Height - 1)
MixedCells == (0 .. MixedWidth - 1) \X (0 .. MixedHeight - 1)

\* ------------------------------------------------------------------- tiles
\* enum Tile.  The maps of the model hold Empty, Dirt and Road.
Empty == "Empty"
Road == "Road"
Wall == "Wall"
Gravel == "Gravel"
Dirt == "Dirt"
Ice == "Ice"
Tiles == {Empty, Dirt, Road}

\* Tile::tile_color as <<r, g, b>>
tile_color(t) ==
    CASE t = Empty -> <<255, 255, 255>>
      [] t = Road -> <<128, 128, 128>>
      [] t = Wall -> <<0, 0, 0>>
      [] t = Gravel -> <<100, 100, 100>>
      [] t = Dirt -> <<255, 0, 0>>
      [] t = Ice -> <<0, 0, 255>>

\* ------------------------------------------------------------------- state
VARIABLES
    terrain,        \* GameMap.terrain: HashMap<Cell, Tile>, a function on the populated cells
    pc,             \* position inside View::pre_render
    cell_coverage,  \* View.texture.2: Option<(Cell, Cell)>
    texture,        \* View.texture.1: Option<Texture>, what fixes the pixel buffer when Some
    border_cells,   \* the working set of (inside, outside) pairs
    hash_seed,      \* the bucket order HashSet::new() fixed for border_cells
    borders_list,   \* HashMap<Tile, Vec<Vec<WorldPosition>>>
    first,          \* the start pair of the loop being walked
    tile,           \* the kind of the loop being walked
    current,        \* the pair the walk is at
    current_dir,    \* the direction the walk faces
    border,         \* the pairs pushed for the loop being walked
    traced,         \* history: for each emitted loop, its kind and its Vec `border`
    run,            \* history: the number of pre_render calls started
    previous,       \* history: borders_list as the previous pre_render call left it
    traced_terrain, \* history: GameMap.terrain as the last pre_render call read it
    cam_size,       \* View.cam_size: (u16, u16)
    cell_size,      \* View.cell_size: u16, the pixels of a cell on the window
    view_start,     \* View.start_point, in window pixels (start_point * cell_size)
    clicked,        \* Mouse.clicked: Option<(MouseButton, (i32, i32))>
    mouse_position, \* Mouse.position: Option<(i32, i32)>
    call,           \* the last call made from outside, with its arguments
    ret,            \* what that call returned: <<>> before it returns, <<value>> after
    displayed       \* history: the terrain behind the texture View::render copied last

\* the fields and history that View::pre_render leaves alone
view_vars == <<cam_size, cell_size, view_start, clicked, mouse_position, call, ret, displayed>>

vars == <<terrain, pc, cell_coverage, texture, border_cells, hash_seed, borders_list,
          first, tile, current, current_dir, border, traced, run, previous,
          traced_terrain, view_vars>>

\* a value not set yet: an Option that is None, a local before its let
None == <<>>

\* the same for a Side
NoSide == "NoSide"

\* ------------------------------------------------------------------ GameMap
default_tile == Empty

get_tile(position) ==
    IF position \in DOMAIN terrain THEN terrain[position] ELSE default_tile

\* iter_tiles yields every explicitly set cell
iter_tiles == DOMAIN terrain

\* --------------------------------------------------------------------- Side
dir(s) ==
    CASE s = "Up" -> <<0, -1>>
      [] s = "Right" -> <<1, 0>>
      [] s = "Down" -> <<0, 1>>
      [] s = "Left" -> <<-1, 0>>

\* fault variant of from_dir: the arm for (-1, 0) is missing
from_dir_without_left(d) ==
    CASE d = <<0, -1>> -> "Up"
      [] d = <<1, 0>> -> "Right"
      [] d = <<0, 1>> -> "Down"
      [] OTHER -> "Err"

\* Result<Side, ()>: "Err" stands for Err(())
from_dir(d) ==
    CASE d = <<0, -1>> -> "Up"
      [] d = <<1, 0>> -> "Right"
      [] d = <<0, 1>> -> "Down"
      [] d = <<-1, 0>> -> "Left"
      [] OTHER -> "Err"

turn_right(s) ==
    CASE s = "Up" -> "Right"
      [] s = "Right" -> "Down"
      [] s = "Down" -> "Left"
      [] s = "Left" -> "Up"

turn_left(s) ==
    CASE s = "Right" -> "Up"
      [] s = "Down" -> "Right"
      [] s = "Left" -> "Down"
      [] s = "Up" -> "Left"

\* Side::iter_dir, in its fixed order
iter_dir == <<dir("Up"), dir("Right"), dir("Down"), dir("Left")>>

move_cell(cell, d) == <<cell[1] + dir(d)[1], cell[2] + dir(d)[2]>>

\* ---------------------------------------------------------------- positions
\* WorldPosition is a pair of f32.  Every coordinate pre_render computes is a
\* multiple of 1/128 of small magnitude, exactly representable in f32; the
\* model stores a coordinate as the integer 128 * value.
PRE_RENDERING_CELL_SIZE == 128

start_point(cell) ==
    <<PRE_RENDERING_CELL_SIZE * cell[1], PRE_RENDERING_CELL_SIZE * cell[2]>>

\* fault variant of center_point: the half cell is not added
center_point_at_corner(cell) ==
    <<PRE_RENDERING_CELL_SIZE * cell[1], PRE_RENDERING_CELL_SIZE * cell[2]>>

center_point(cell) ==
    <<PRE_RENDERING_CELL_SIZE * cell[1] + PRE_RENDERING_CELL_SIZE \div 2,
      PRE_RENDERING_CELL_SIZE * cell[2] + PRE_RENDERING_CELL_SIZE \div 2>>

\* fault variant of border_point: the centre of the inside cell is taken
border_point_of_inside(x) == center_point(x[1])

\* fault variant of border_point: the two coordinates are exchanged
border_point_transposed(x) ==
    LET inside == center_point(x[1])
        outside == center_point(x[2])
    IN  <<(inside[2] + outside[2]) \div 2, (inside[1] + outside[1]) \div 2>>

\* the closure of border.into_iter().map(..): the midpoint of the two centres
border_point(x) ==
    LET inside == center_point(x[1])
        outside == center_point(x[2])
    IN  <<(inside[1] + outside[1]) \div 2, (inside[2] + outside[2]) \div 2>>

\* ----------------------------------------------------------- signed distance
\* An f32 distance is modelled by its exact real value: the record
\* [cls |-> "fin", sgn, num, den] stands for sgn * sqrt(num / den) in units of
\* 1/128, [cls |-> "max", sgn] for sgn * f32::MAX and [cls |-> "nan"] for NaN.
\* Rounding of the division and of the square roots is not modelled.
Fin(s, n, d) == [cls |-> "fin", sgn |-> s, num |-> n, den |-> d]
MAX == [cls |-> "max", sgn |-> 1, num |-> 0, den |-> 0]
NaN == [cls |-> "nan", sgn |-> 0, num |-> 0, den |-> 0]

Sign(n) == IF n > 0 THEN 1 ELSE IF n < 0 THEN -1 ELSE 0
Abs(n) == IF n < 0 THEN -n ELSE n
\* fault variant of Min: the larger of the two
farther(a, b) == IF a < b THEN b ELSE a

Min(a, b) == IF a < b THEN a ELSE b

RECURSIVE Gcd(_, _)
Gcd(a, b) == IF b = 0 THEN a ELSE Gcd(b, a % b)

\* fault variant of neg: the sign is kept
neg_missing(x) == x

\* -x
neg(x) == IF x.cls = "nan" THEN x ELSE [x EXCEPT !.sgn = -x.sgn]

\* fault variant of abs_lt: a NaN on the left compares as smaller
abs_lt_nan_first(x, y) ==
    CASE x.cls = "nan" -> TRUE
      [] y.cls = "nan" -> FALSE
      [] x.cls = "max" -> FALSE
      [] y.cls = "max" -> TRUE
      [] OTHER -> x.num * y.den < y.num * x.den

\* x.abs() < y.abs(); a comparison with NaN is false
abs_lt(x, y) ==
    CASE x.cls = "nan" \/ y.cls = "nan" -> FALSE
      [] x.cls = "max" -> FALSE
      [] y.cls = "max" -> TRUE
      [] OTHER -> x.num * y.den < y.num * x.den

\* x <= 0.
le_zero(x) ==
    CASE x.cls = "nan" -> FALSE
      [] x.cls = "max" -> x.sgn < 0
      [] OTHER -> x.sgn <= 0

\* the square of dist(a, b)
dist2(a, b) == (a[1] - b[1]) * (a[1] - b[1]) + (a[2] - b[2]) * (a[2] - b[2])

vec(a, b) == <<b[1] - a[1], b[2] - a[2]>>

dot(v, w) == v[1] * w[1] + v[2] * w[2]

\* d.abs() < 10e-6 for d = n / sqrt(q) units of 1/128, q > 0:
\* n^2 / q < (128 * 10^-5)^2, that is n^2 * 5^10 < 16 * q
below_epsilon(n, q) == n * n <= (16 * q - 1) \div 9765625

sdf_segment(tested_point, start, end) ==
    LET a == end[2] - start[2]
        b == start[1] - end[1]
        c == start[2] * (end[1] - start[1]) - start[1] * (end[2] - start[2])
        n == a * tested_point[1] + b * tested_point[2] + c
        g == Gcd(Abs(a), Abs(b))
        \* d = n / sqrt(a*a + b*b), with numerator and denominator divided by g
        d == IF g = 0 THEN NaN
             ELSE Fin(Sign(n), (n \div g) * (n \div g), (a \div g) * (a \div g) + (b \div g) * (b \div g))
        obtuse == \/ dot(vec(start, end), vec(start, tested_point)) <= 0
                  \/ dot(vec(end, start), vec(end, tested_point)) <= 0
    IN  IF obtuse
        THEN IF g # 0 /\ below_epsilon(n \div g, d.den)
             THEN MAX
             ELSE IF g = 0 THEN NaN
             ELSE Fin(Sign(n), Min(dist2(tested_point, start), dist2(tested_point, end)), 1)
        ELSE d

RECURSIVE polygon_fold(_, _, _, _)
polygon_fold(tested_point, polygon, i, dist) ==
    IF i > Len(polygon) THEN dist
    ELSE LET d == neg(sdf_segment(tested_point, polygon[i - 1], polygon[i]))
         IN  polygon_fold(tested_point, polygon, i + 1, IF abs_lt(d, dist) THEN d ELSE dist)

\* polygon.get(0).unwrap() needs a first point; every polygon passed has one
sdf_polygon(tested_point, polygon) == polygon_fold(tested_point, polygon, 2, MAX)

RECURSIVE polygons_fold(_, _, _, _)
polygons_fold(tested_point, polygons, i, dist) ==
    IF i > Len(polygons) THEN dist
    ELSE LET d == sdf_polygon(tested_point, polygons[i])
         IN  polygons_fold(tested_point, polygons, i + 1, IF abs_lt(d, dist) THEN d ELSE dist)

\* fault variant of sdf_multiple_polygons: only the first polygon is looked at
sdf_first_polygon(tested_point, polygons) ==
    IF Len(polygons) = 0 THEN MAX ELSE sdf_polygon(tested_point, polygons[1])

sdf_multiple_polygons(tested_point, polygons) == polygons_fold(tested_point, polygons, 1, MAX)

\* -------------------------------------------------------------- hash order
\* border_cells is a HashSet with the RandomState that HashSet::new() draws:
\* iter() walks the buckets in an order that is fixed once the pairs are
\* inserted (a removal moves no entry) and differs from one set to the next.
\* The model draws that order from the rotations of the lexicographic order of
\* the pairs: hash_seed is the pair the rotation starts at, so every pair of the
\* set can be the first one that iter() yields.
pair_less(p, q) ==
    LET a == <<p[1][1], p[1][2], p[2][1], p[2][2]>>
        b == <<q[1][1], q[1][2], q[2][1], q[2][2]>>
    IN  \E i \in 1 .. 4 : a[i] < b[i] /\ \A j \in 1 .. i - 1 : a[j] = b[j]

bucket_before(seed, p, q) ==
    IF pair_less(p, seed) = pair_less(q, seed) THEN pair_less(p, q) ELSE pair_less(q, seed)

\* *set.iter().next().unwrap() of a non-empty set
iter_next(set, seed) == CHOOSE p \in set : \A q \in set \ {p} : bucket_before(seed, p, q)

\* borders_list is a HashMap: `for (tile, borders) in &borders_list` visits its
\* keys in any order
key_orders(keys) ==
    { o \in [1 .. Cardinality(keys) -> keys] : \A i, j \in DOMAIN o : i # j => o[i] # o[j] }

\* ------------------------------------------------------------- pre_render
\* lines 121-136: the fold over iter_tiles that starts from ((0, 0), (0, 0))
cell_range ==
    LET xs == {0} \cup { c[1] : c \in iter_tiles }
        ys == {0} \cup { c[2] : c \in iter_tiles }
        lo(S) == CHOOSE v \in S : \A w \in S : v <= w
        hi(S) == CHOOSE v \in S : \A w \in S : v >= w
    IN  <<<<lo(xs), lo(ys)>>, <<hi(xs), hi(ys)>>>>

texture_size(range) ==
    <<(range[2][1] - range[1][1] + 1) * PRE_RENDERING_CELL_SIZE,
      (range[2][2] - range[1][2] + 1) * PRE_RENDERING_CELL_SIZE>>

\* fault variant of discovered_borders: Empty cells are not skipped
discovered_borders_of_all ==
    UNION { { <<c, <<c[1] + iter_dir[i][1], c[2] + iter_dir[i][2]>>>> :
                i \in { k \in 1 .. 4 :
                          get_tile(<<c[1] + iter_dir[k][1], c[2] + iter_dir[k][2]>>) # get_tile(c) } } :
            c \in iter_tiles }

\* lines 158-180: the pairs (cell, neighbour) of every populated non-Empty cell
\* whose neighbour holds another tile
discovered_borders ==
    UNION { { <<c, <<c[1] + iter_dir[i][1], c[2] + iter_dir[i][2]>>>> :
                i \in { k \in 1 .. 4 :
                          get_tile(<<c[1] + iter_dir[k][1], c[2] + iter_dir[k][2]>>) # get_tile(c) } } :
            c \in { k \in iter_tiles : get_tile(k) # Empty } }

\* lines 119-183: the head of pre_render, up to the first test of the while
Begin ==
    /\ pc = "begin"
    /\ cell_coverage' = cell_range
    /\ border_cells' = discovered_borders
    /\ IF discovered_borders = {}
       THEN hash_seed' = None
       ELSE hash_seed' \in discovered_borders
    /\ borders_list' = <<>>
    /\ traced' = <<>>
    /\ pc' = "while"
    /\ traced_terrain' = terrain
    /\ UNCHANGED <<terrain, texture, first, tile, current, current_dir, border, run, previous,
                   view_vars>>

\* fault variant of StartLoop: the start pair is not pushed on border
StartLoop_without_push ==
    /\ pc = "while"
    /\ border_cells # {}
    /\ LET f == iter_next(border_cells, hash_seed)
           side == from_dir(<<f[2][1] - f[1][1], f[2][2] - f[1][2]>>)
       IN  /\ first' = f
           /\ tile' = get_tile(f[1])
           /\ current' = f
           /\ border' = <<>>
           /\ IF side = "Err"
              THEN current_dir' = NoSide /\ pc' = "panic"
              ELSE current_dir' = turn_left(side) /\ pc' = "loop"
    /\ UNCHANGED <<terrain, cell_coverage, texture, border_cells, hash_seed, borders_list,
                   traced, run, previous,
                   traced_terrain, view_vars>>

\* lines 190-203: the while finds a pair left and starts a loop from it;
\* from_dir(..).unwrap() panics on Err
StartLoop ==
    /\ pc = "while"
    /\ border_cells # {}
    /\ LET f == iter_next(border_cells, hash_seed)
           side == from_dir(<<f[2][1] - f[1][1], f[2][2] - f[1][2]>>)
       IN  /\ first' = f
           /\ tile' = get_tile(f[1])
           /\ current' = f
           /\ border' = <<f>>
           /\ IF side = "Err"
              THEN current_dir' = NoSide /\ pc' = "panic"
              ELSE current_dir' = turn_left(side) /\ pc' = "loop"
    /\ UNCHANGED <<terrain, cell_coverage, texture, border_cells, hash_seed, borders_list,
                   traced, run, previous,
                   traced_terrain, view_vars>>

\* fault variant of walk_move: the cell in front is entered whatever it holds
walk_move_blind(cur, d, t) ==
    LET right == move_cell(cur[1], turn_right(d))
        front == move_cell(cur[1], d)
        nd == IF get_tile(right) = t THEN turn_right(d) ELSE d
        n0 == IF get_tile(right) = t THEN right ELSE front
    IN  [pair |-> <<n0, move_cell(n0, turn_right(nd))>>, dir |-> nd]

\* fault variant of walk_move: moving on passes over a cell of the area
walk_move_leaping(cur, d, t) ==
    LET right == move_cell(cur[1], turn_right(d))
        front == move_cell(cur[1], d)
        leap == move_cell(front, d)
        nd == IF get_tile(right) = t THEN turn_right(d)
              ELSE IF get_tile(front) = t THEN d
              ELSE turn_left(d)
        n0 == IF get_tile(right) = t THEN right
              ELSE IF get_tile(front) = t THEN (IF get_tile(leap) = t THEN leap ELSE front)
              ELSE cur[1]
    IN  [pair |-> <<n0, move_cell(n0, turn_right(nd))>>, dir |-> nd]

\* lines 210-228: the move of one iteration, from the pair `cur` facing `d`
\* to the next pair and direction, for the loop of kind t
walk_move(cur, d, t) ==
    LET right == move_cell(cur[1], turn_right(d))
        front == move_cell(cur[1], d)
        nd == IF get_tile(right) = t THEN turn_right(d)
              ELSE IF get_tile(front) = t THEN d
              ELSE turn_left(d)
        n0 == IF get_tile(right) = t THEN right
              ELSE IF get_tile(front) = t THEN front
              ELSE cur[1]
    IN  [pair |-> <<n0, move_cell(n0, turn_right(nd))>>, dir |-> nd]

\* fault variant of is_border: the start pair is not pushed again
is_border_but_first(pair, t) == get_tile(pair[2]) # t /\ pair # first

\* line 231: the pair is pushed when its outside cell holds another tile
is_border(pair, t) == get_tile(pair[2]) # t

\* fault variant of WalkStep: the start pair is removed instead of the current one
WalkStep_removing_first ==
    /\ pc = "loop"
    /\ border_cells' = border_cells \ {first}
    /\ LET m == walk_move(current, current_dir, tile)
       IN  /\ current_dir' = m.dir
           /\ current' = m.pair
           /\ border' = IF is_border(m.pair, tile) THEN Append(border, m.pair) ELSE border
           /\ pc' = IF m.pair = first THEN "emit" ELSE "loop"
    /\ UNCHANGED <<terrain, cell_coverage, texture, hash_seed, borders_list, first, tile,
                   traced, run, previous,
                   traced_terrain, view_vars>>

\* lines 205-238: one iteration of the walk
WalkStep ==
    /\ pc = "loop"
    /\ border_cells' = border_cells \ {current}
    /\ LET m == walk_move(current, current_dir, tile)
       IN  /\ current_dir' = m.dir
           /\ current' = m.pair
           /\ border' = IF is_border(m.pair, tile) THEN Append(border, m.pair) ELSE border
           /\ pc' = IF m.pair = first THEN "emit" ELSE "loop"
    /\ UNCHANGED <<terrain, cell_coverage, texture, hash_seed, borders_list, first, tile,
                   traced, run, previous,
                   traced_terrain, view_vars>>

\* fault variant of push_border: the kind's list is replaced, not extended
push_border_replacing(list, t, points) ==
    [k \in DOMAIN list \cup {t} |-> IF k = t THEN <<points>> ELSE list[k]]

\* lines 240-252: the loop is mapped to points and pushed on its kind's list
push_border(list, t, points) ==
    IF t \in DOMAIN list
    THEN [list EXCEPT ![t] = Append(@, points)]
    ELSE [k \in DOMAIN list \cup {t} |-> IF k = t THEN <<points>> ELSE list[k]]

EmitLoop ==
    /\ pc = "emit"
    /\ borders_list' =
         push_border(borders_list, tile, [i \in 1 .. Len(border) |-> border_point(border[i])])
    /\ traced' = Append(traced, [tile |-> tile, border |-> border])
    /\ pc' = "while"
    /\ UNCHANGED <<terrain, cell_coverage, texture, border_cells, hash_seed, first, tile,
                   current, current_dir, border, run, previous,
                   traced_terrain, view_vars>>

\* lines 268-285: the bytes of one pixel, <<B, G, R, A>>; `order` is the order
\* in which the for visits the kinds of borders_list.  The G byte of a filled
\* pixel is color.g + round(sin(-dist * 10) * 64): the model keeps color.g and
\* dist, which determine it.
\* fault variant of Background: transparent black
Background_black == <<0, 0, 0, 0>>

Background == <<255, 255, 255, 255>>

RECURSIVE pixel_bytes(_, _, _, _)
pixel_bytes(list, order, i, world_pos) ==
    IF i > Len(order) THEN Background
    ELSE LET dist == sdf_multiple_polygons(world_pos, list[order[i]])
             color == tile_color(order[i])
         IN  IF le_zero(dist)
             THEN <<color[3], [g |-> color[2], band |-> dist], color[1], 255>>
             ELSE pixel_bytes(list, order, i + 1, world_pos)

\* lines 255-291: the while ends, the buffer is filled and the texture stored.
\* The texture is kept as what its bytes are computed from (the size, the world
\* position of pixel (0, 0), borders_list and the order of its keys): buffer
\* below gives the bytes.
Rasterize ==
    /\ pc = "while"
    /\ border_cells = {}
    /\ \E order \in key_orders(DOMAIN borders_list) :
         texture' = [size |-> texture_size(cell_coverage),
                     starting_world_pos |-> start_point(cell_coverage[1]),
                     borders_list |-> borders_list,
                     order |-> order]
    /\ pc' = "done"
    /\ UNCHANGED <<terrain, cell_coverage, border_cells, hash_seed, borders_list, first, tile,
                   current, current_dir, border, traced, run, previous,
                   traced_terrain, view_vars>>

\* lines 259-266: the bytes written at pixel p = <<x, y>> of the texture tex
buffer(tex, p) ==
    pixel_bytes(tex.borders_list, tex.order, 1,
                <<tex.starting_world_pos[1] + p[1], tex.starting_world_pos[2] + p[2]>>)

\* the pixels of a texture at which the model evaluates the buffer
pixels(tex) ==
    { p \in (0 .. tex.size[1] - 1) \X (0 .. tex.size[2] - 1) :
        p[1] % PixelStep = 0 /\ p[2] % PixelStep = 0 }

\* pre_render is called again on the unchanged map
MaxRuns == 2

Rerun ==
    /\ pc = "done"
    /\ run < MaxRuns
    /\ run' = run + 1
    /\ previous' = borders_list
    /\ pc' = "begin"
    /\ UNCHANGED <<terrain, cell_coverage, texture, border_cells, hash_seed, borders_list,
                   first, tile, current, current_dir, border, traced, traced_terrain,
                   view_vars>>

\* ------------------------------------------------------------ specifications
MonoMaps == UNION { [S -> {Dirt}] : S \in SUBSET Cells }
MixedMaps == UNION { [S -> Tiles] : S \in SUBSET MixedCells }

\* the cell size launch gives View::new: the pixels of a cell on the window
LaunchCellSize == 36

\* the size of the window main gives View::new (src/src/main.rs)
WindowSize == <<800, 600>>

\* what a call that returns () leaves in ret
Unit == TRUE

\* no call made yet
NoCall == [op |-> "none"]

\* View::new followed by the first render: the texture is None, pre_render starts
InitView ==
    /\ pc = "begin"
    /\ cell_coverage = None
    /\ texture = None
    /\ border_cells = {}
    /\ hash_seed = None
    /\ borders_list = <<>>
    /\ first = None
    /\ tile = Empty
    /\ current = None
    /\ current_dir = NoSide
    /\ border = <<>>
    /\ traced = <<>>
    /\ run = 1
    /\ previous = None
    /\ traced_terrain = None
    /\ cam_size = WindowSize
    /\ cell_size = LaunchCellSize
    /\ view_start = <<0, 0>>
    /\ clicked = None
    /\ mouse_position = None
    /\ call = NoCall
    /\ ret = None
    /\ displayed = None

Init ==
    /\ terrain \in MonoMaps \cup MixedMaps
    /\ InitView

Next == Begin \/ StartLoop \/ WalkStep \/ EmitLoop \/ Rasterize

Spec == Init /\ [][Next]_vars

\* The maps of the termination check: the 3x3 Dirt maps with at most two cells
\* left out (the full block, the ring around a hole, the notched blocks) and
\* the 2x2 maps with every cell set.
FairMaps ==
    { m \in MonoMaps : Cardinality(DOMAIN m) >= Width * Height - 2 }
        \cup [MixedCells -> Tiles]

InitFair ==
    /\ terrain \in FairMaps
    /\ InitView

\* pre_render is a sequential call: while a step is possible, one is taken
FairSpec == InitFair /\ [][Next]_vars /\ WF_vars(Next)

\* two calls of pre_render on the same map
InitRerun ==
    /\ terrain \in MixedMaps
    /\ InitView

NextRerun == Next \/ Rerun

SpecRerun == InitRerun /\ [][NextRerun]_vars

\* ------------------------------------------------- the View and its map
\* The calls a user of View makes between two pre_render calls: render,
\* get_map_mut().set_tile and pre_render itself.
CacheWidth == 2
CacheHeight == 1
CacheCells == (0 .. CacheWidth - 1) \X (0 .. CacheHeight - 1)
CacheTiles == {Empty, Dirt}
CacheMaps == UNION { [S -> {Dirt}] : S \in SUBSET CacheCells }

\* GameMap::set_tile on the map `map`: the new map and the returned bool
\* fault variant of set_tile: no call reports a change
set_tile_unreported(map, position, tile_type) ==
    [terrain |-> [c \in DOMAIN map \cup {position} |->
                     IF c = position THEN tile_type ELSE map[c]],
     changed |-> FALSE]

\* fault variant of set_tile: every call reports a change
set_tile_always_changed(map, position, tile_type) ==
    [terrain |-> [c \in DOMAIN map \cup {position} |->
                     IF c = position THEN tile_type ELSE map[c]],
     changed |-> TRUE]

set_tile(map, position, tile_type) ==
    [terrain |-> [c \in DOMAIN map \cup {position} |->
                     IF c = position THEN tile_type ELSE map[c]],
     changed |-> IF position \notin DOMAIN map THEN TRUE
                 ELSE map[position] # tile_type]

\* no call is in flight: the first render has returned, and so has every later call
Idle == pc = "done" /\ ret # None

\* View::render, lines 91-116, up to the end of the if: pre_render is entered
\* when texture.1 is None, and the copy is made at once when it is Some
Render ==
    /\ Idle
    /\ call' = [op |-> "render"]
    /\ IF texture = None
       THEN /\ pc' = "begin"
            /\ ret' = None
            /\ UNCHANGED displayed
       ELSE /\ displayed' = traced_terrain
            /\ ret' = <<Unit>>
            /\ UNCHANGED pc
    /\ UNCHANGED <<terrain, cell_coverage, texture, border_cells, hash_seed, borders_list,
                   first, tile, current, current_dir, border, traced, run, previous,
                   traced_terrain, cam_size, cell_size, view_start, clicked, mouse_position>>

\* View::render, lines 96-115, after its pre_render call: the texture is copied
RenderCopy ==
    /\ pc = "done"
    /\ ret = None
    /\ call.op \in {"none", "render"}
    /\ call' = [op |-> "render"]
    /\ displayed' = traced_terrain
    /\ ret' = <<Unit>>
    /\ UNCHANGED <<terrain, pc, cell_coverage, texture, border_cells, hash_seed, borders_list,
                   first, tile, current, current_dir, border, traced, run, previous,
                   traced_terrain, cam_size, cell_size, view_start, clicked, mouse_position>>

\* view.get_map_mut().set_tile(position, tile), lines 294-296 and map.rs 73-79
SetTile ==
    /\ Idle
    /\ \E position \in CacheCells, tile_type \in CacheTiles :
          /\ terrain' = set_tile(terrain, position, tile_type).terrain
          /\ ret' = <<set_tile(terrain, position, tile_type).changed>>
          /\ call' = [op |-> "set_tile", position |-> position, tile |-> tile_type,
                      before |-> terrain]
    /\ UNCHANGED <<pc, cell_coverage, texture, border_cells, hash_seed, borders_list,
                   first, tile, current, current_dir, border, traced, run, previous,
                   traced_terrain, cam_size, cell_size, view_start, clicked, mouse_position, displayed>>

\* view.pre_render() called by the user: the call starts and runs as above
PreRender ==
    /\ Idle
    /\ call' = [op |-> "pre_render"]
    /\ ret' = None
    /\ pc' = "begin"
    /\ UNCHANGED <<terrain, cell_coverage, texture, border_cells, hash_seed, borders_list,
                   first, tile, current, current_dir, border, traced, run, previous,
                   traced_terrain, cam_size, cell_size, view_start, clicked, mouse_position, displayed>>

\* the user's pre_render call returns
PreRenderReturn ==
    /\ pc = "done"
    /\ ret = None
    /\ call.op = "pre_render"
    /\ ret' = <<Unit>>
    /\ UNCHANGED <<terrain, pc, cell_coverage, texture, border_cells, hash_seed, borders_list,
                   first, tile, current, current_dir, border, traced, run, previous,
                   traced_terrain, cam_size, cell_size, view_start, clicked, mouse_position, call,
                   displayed>>

InitCache ==
    /\ terrain \in CacheMaps
    /\ InitView

NextCache ==
    Next \/ Render \/ RenderCopy \/ SetTile \/ PreRender \/ PreRenderReturn

SpecCache == InitCache /\ [][NextCache]_vars

\* ------------------------------------------------- the Mouse and game::launch
\* the variables of pre_render but pc and the map
walk_vars == <<cell_coverage, texture, border_cells, hash_seed, borders_list, first, tile,
               current, current_dir, border, traced, run, previous, traced_terrain>>

\* no View is rendering: the locals of pre_render are unset
NoWalk ==
    /\ cell_coverage = None
    /\ texture = None
    /\ border_cells = {}
    /\ hash_seed = None
    /\ borders_list = <<>>
    /\ first = None
    /\ tile = Empty
    /\ current = None
    /\ current_dir = NoSide
    /\ border = <<>>
    /\ traced = <<>>
    /\ run = 1
    /\ previous = None
    /\ traced_terrain = None
    /\ displayed = None

\* the Mouse of the model: its two fields
mouse == [clicked |-> clicked, position |-> mouse_position]

MouseButtons == {"Left", "Middle", "Right"}

\* Mouse::new
Mouse_new == [clicked |-> None, position |-> None]

\* Mouse::move_to: the mouse after the call and the vector it returns
move_to(m, pos) ==
    [mouse |-> [m EXCEPT !.position = pos],
     vec |-> IF m.position # None
             THEN <<m.position[1] - pos[1], m.position[2] - pos[2]>>
             ELSE None]

get_click(m) == m.clicked

\* fault variant of click: the position is left as it was
click_keeping_position(m, button, pos) == [m EXCEPT !.clicked = <<button, pos>>]

\* Mouse::click
click(m, button, pos) == [clicked |-> <<button, pos>>, position |-> pos]

\* fault variant of click_up: the release of any button ends the click
click_up_any_button(m, mouse_button, pos) ==
    IF m.clicked # None
    THEN [mouse |-> [clicked |-> None, position |-> pos],
          vec |-> <<m.clicked[2][1] - pos[1], m.clicked[2][2] - pos[2]>>]
    ELSE [mouse |-> [m EXCEPT !.position = pos], vec |-> None]

\* Mouse::click_up: the mouse after the call and the vector it returns
click_up(m, mouse_button, pos) ==
    IF m.clicked # None /\ m.clicked[1] = mouse_button
    THEN [mouse |-> [clicked |-> None, position |-> pos],
          vec |-> <<m.clicked[2][1] - pos[1], m.clicked[2][2] - pos[2]>>]
    ELSE [mouse |-> [m EXCEPT !.position = pos], vec |-> None]

\* Mouse::reset
reset(m) == Mouse_new

\* The start point of the View of launch is held in pixels of the window, the
\* unit of 1/cell_size cell: view_start = start_point * cell_size. Rounding of the
\* f32 divisions is not modelled.
\* View::move_camera: the start point slides by vector / cell_size
move_camera(start, vector) == <<start[1] + vector[1], start[2] + vector[2]>>

\* View::get_world_pos, in pixels of the window
get_world_pos(start, window_pos) == <<window_pos[1] + start[1], window_pos[2] + start[2]>>

\* WorldPosition::cell of a position in pixels of the window: the floor
world_cell(world_pos) == <<world_pos[1] \div cell_size, world_pos[2] \div cell_size>>

\* f32::round of the quotient n / d, d > 0: halves go away from zero
round(n, d) ==
    IF n >= 0 THEN (2 * n + d) \div (2 * d) ELSE -((2 * (-n) + d) \div (2 * d))

\* `as u16` of a float that is a whole number: the cast saturates
as_u16(x) == IF x < 0 THEN 0 ELSE IF x > 65535 THEN 65535 ELSE x

\* fault variant of clamp: the value is returned as it is
clamp_missing(x, min, max) == x

clamp(x, min, max) == IF x < min THEN min ELSE IF x > max THEN max ELSE x

\* a start point that is NaN
NaNPoint == <<>>

\* View::zoom for a view of cell size cs and start point start, with the
\* factor zoom_factor = <<numerator, denominator>> and the centre in pixels
\* of the window, as start is: the new cell size and the new start point, and
\* whether the assert has failed, which leaves the view as it was. With a cell
\* size of 0 the centre and the new start point are NaN.
zoom(cs, start, zoom_factor, center) ==
    IF zoom_factor[1] <= 0
    THEN [panic |-> TRUE, cell_size |-> cs, start |-> start]
    ELSE LET new == clamp(as_u16(round(cs * zoom_factor[1], zoom_factor[2])), 8, 80)
             slide(i) == round(center[i] * new + (start[i] - center[i]) * cs, cs)
         IN  [panic |-> FALSE,
              cell_size |-> new,
              start |-> IF cs = 0 \/ start = NaNPoint THEN NaNPoint
                        ELSE <<slide(1), slide(2)>>]

\* View::resize: try_into::<u16>().unwrap() panics above u16::MAX
resize(new_size) ==
    IF new_size[1] <= 65535 /\ new_size[2] <= 65535 THEN new_size ELSE "panic"

\* the positions of the mouse on the window, the sizes of the window and the
\* reach of the camera
MouseStep == 20
MousePlaces == 2
WindowPositions == { <<MouseStep * i, 0>> : i \in 0 .. MousePlaces - 1 }
WindowSizes == {WindowSize, <<640, 480>>}
MaxSlide == 20

\* lines 46-51 and 57-62 of game.rs: with the right button held, the cell under
\* the mouse is set to Dirt and the view is pre-rendered if that changed the
\* map; the handler has left the mouse m and the start point start
Handled(event, m, start) ==
    /\ clicked' = m.clicked
    /\ mouse_position' = m.position
    /\ view_start' = start
    /\ call' = [op |-> event]
    /\ IF get_click(m) # None /\ get_click(m)[1] = "Right"
       THEN IF m.position = None
            THEN pc' = "panic" /\ ret' = None /\ UNCHANGED terrain
            ELSE LET set == set_tile(terrain, world_cell(get_world_pos(start, m.position)), Dirt)
                 IN  /\ terrain' = set.terrain
                     /\ IF set.changed
                        THEN pc' = "begin" /\ ret' = None
                        ELSE ret' = <<Unit>> /\ UNCHANGED pc
       ELSE ret' = <<Unit>> /\ UNCHANGED <<terrain, pc>>
    /\ UNCHANGED <<walk_vars, cam_size, cell_size, displayed>>

\* Event::MouseMotion, lines 40-52
MouseMotion ==
    /\ Idle
    /\ \E pos \in WindowPositions :
          LET moved == move_to(mouse, pos)
              slid == IF /\ moved.vec # None
                         /\ get_click(moved.mouse) # None
                         /\ get_click(moved.mouse)[1] \in {"Middle", "Left"}
                      THEN move_camera(view_start, moved.vec)
                      ELSE view_start
          IN  /\ Abs(slid[1]) <= MaxSlide
              /\ Abs(slid[2]) <= MaxSlide
              /\ Handled("MouseMotion", moved.mouse, slid)

\* Event::MouseButtonDown, lines 53-63
MouseButtonDown ==
    /\ Idle
    /\ \E mouse_btn \in MouseButtons, pos \in WindowPositions :
          Handled("MouseButtonDown", click(mouse, mouse_btn, pos), view_start)

\* the pre_render call of a handler has returned, and the handler returns
Handler ==
    /\ pc = "done"
    /\ ret = None
    /\ call.op \in {"MouseMotion", "MouseButtonDown"}
    /\ ret' = <<Unit>>
    /\ UNCHANGED <<terrain, pc, walk_vars, cam_size, cell_size, view_start, clicked, mouse_position,
                   call, displayed>>

\* Event::MouseButtonUp, lines 64-68
MouseButtonUp ==
    /\ Idle
    /\ \E mouse_btn \in MouseButtons, pos \in WindowPositions :
          /\ clicked' = click_up(mouse, mouse_btn, pos).mouse.clicked
          /\ mouse_position' = click_up(mouse, mouse_btn, pos).mouse.position
    /\ call' = [op |-> "MouseButtonUp"]
    /\ ret' = <<Unit>>
    /\ UNCHANGED <<terrain, pc, walk_vars, cam_size, cell_size, view_start, displayed>>

\* WindowEvent::Leave, lines 34-39
Leave ==
    /\ Idle
    /\ clicked' = reset(mouse).clicked
    /\ mouse_position' = reset(mouse).position
    /\ call' = [op |-> "Leave"]
    /\ ret' = <<Unit>>
    /\ UNCHANGED <<terrain, pc, walk_vars, cam_size, cell_size, view_start, displayed>>

\* WindowEvent::Resized, lines 30-33
Resized ==
    /\ Idle
    /\ \E new_size \in WindowSizes :
          IF resize(new_size) = "panic"
          THEN pc' = "panic" /\ ret' = None /\ UNCHANGED cam_size
          ELSE cam_size' = resize(new_size) /\ ret' = <<Unit>> /\ UNCHANGED pc
    /\ call' = [op |-> "Resized"]
    /\ UNCHANGED <<terrain, walk_vars, cell_size, view_start, clicked, mouse_position, displayed>>

\* the cell sizes the wheel may reach from the one launch starts with; the
\* wheel is turned where it leaves the start point on a place the slides reach
MaxZoom == 4

\* the two factors of the wheel: 1.12 and 1. / 1.12
wheel_factor(y) == IF y > 0 THEN <<28, 25>> ELSE <<25, 28>>

\* Event::MouseWheel, lines 69-74
MouseWheel ==
    /\ Idle
    /\ \E y \in {-1, 1} :
          IF mouse_position # None
          THEN LET zoomed == zoom(cell_size, view_start, wheel_factor(y),
                                  get_world_pos(view_start, mouse_position))
               IN  /\ Abs(zoomed.cell_size - LaunchCellSize) <= MaxZoom
                   /\ Abs(zoomed.start[1]) <= MaxSlide
                   /\ Abs(zoomed.start[2]) <= MaxSlide
                   /\ zoomed.start[1] % MouseStep = 0
                   /\ zoomed.start[2] % MouseStep = 0
                   /\ cell_size' = zoomed.cell_size
                   /\ view_start' = zoomed.start
          ELSE UNCHANGED <<cell_size, view_start>>
    /\ call' = [op |-> "MouseWheel"]
    /\ ret' = <<Unit>>
    /\ UNCHANGED <<terrain, pc, walk_vars, cam_size, clicked, mouse_position, displayed>>

\* launch(context, game_map) with an empty map: View::new, Mouse::new, and the
\* first render entered
InitLaunch ==
    /\ terrain = <<>>
    /\ InitView

\* the frames of launch: render, then the handlers of the events polled
NextLaunch ==
    \/ Next \/ Render \/ RenderCopy
    \/ MouseMotion \/ MouseButtonDown \/ Handler \/ MouseButtonUp \/ Leave \/ Resized
    \/ MouseWheel

SpecLaunch == InitLaunch /\ [][NextLaunch]_vars

\* ------------------------------------------------------ calls of the Mouse
\* Mouse::new has returned; call.before is the mouse as the call found it
InitMouse ==
    /\ terrain = <<>>
    /\ pc = "mouse"
    /\ NoWalk
    /\ cam_size = WindowSize
    /\ cell_size = LaunchCellSize
    /\ view_start = <<0, 0>>
    /\ clicked = Mouse_new.clicked
    /\ mouse_position = Mouse_new.position
    /\ call = [op |-> "new"]
    /\ ret = <<None>>

\* mouse.move_to(pos)
MoveTo ==
    /\ pc = "mouse"
    /\ \E pos \in WindowPositions :
          /\ clicked' = move_to(mouse, pos).mouse.clicked
          /\ mouse_position' = move_to(mouse, pos).mouse.position
          /\ ret' = <<move_to(mouse, pos).vec>>
          /\ call' = [op |-> "move_to", pos |-> pos, before |-> mouse]
    /\ UNCHANGED <<terrain, pc, walk_vars, cam_size, cell_size, view_start, displayed>>

\* mouse.click(button, pos); a call that returns () leaves no value
Click ==
    /\ pc = "mouse"
    /\ \E button \in MouseButtons, pos \in WindowPositions :
          /\ clicked' = click(mouse, button, pos).clicked
          /\ mouse_position' = click(mouse, button, pos).position
          /\ call' = [op |-> "click", button |-> button, pos |-> pos, before |-> mouse]
    /\ ret' = <<None>>
    /\ UNCHANGED <<terrain, pc, walk_vars, cam_size, cell_size, view_start, displayed>>

\* mouse.click_up(mouse_button, pos)
ClickUp ==
    /\ pc = "mouse"
    /\ \E mouse_button \in MouseButtons, pos \in WindowPositions :
          /\ clicked' = click_up(mouse, mouse_button, pos).mouse.clicked
          /\ mouse_position' = click_up(mouse, mouse_button, pos).mouse.position
          /\ ret' = <<click_up(mouse, mouse_button, pos).vec>>
          /\ call' = [op |-> "click_up", button |-> mouse_button, pos |-> pos, before |-> mouse]
    /\ UNCHANGED <<terrain, pc, walk_vars, cam_size, cell_size, view_start, displayed>>

\* mouse.reset()
Reset ==
    /\ pc = "mouse"
    /\ clicked' = reset(mouse).clicked
    /\ mouse_position' = reset(mouse).position
    /\ call' = [op |-> "reset", before |-> mouse]
    /\ ret' = <<None>>
    /\ UNCHANGED <<terrain, pc, walk_vars, cam_size, cell_size, view_start, displayed>>

NextMouse == MoveTo \/ Click \/ ClickUp \/ Reset

SpecMouse == InitMouse /\ [][NextMouse]_vars

\* ---------------------------------------------------- the size of the View
\* the widths and heights given to View::new and View::resize
ViewWidths == {320, 640, 800, 1024, 1280, 65535}
ViewHeights == {240, 480, 600, 768, 1024, 65535}

\* View::get_size
get_size(size) == <<size[1], size[1]>>

\* View::new(.., cam_size, ..) has returned; call.given is the size last given
InitSize ==
    /\ terrain = <<>>
    /\ pc = "view"
    /\ NoWalk
    /\ cam_size \in ViewWidths \X ViewHeights
    /\ cell_size = LaunchCellSize
    /\ view_start = <<0, 0>>
    /\ clicked = None
    /\ mouse_position = None
    /\ call = [op |-> "new", given |-> cam_size]
    /\ ret = <<None>>

\* view.resize(new_size); a call that returns () leaves no value
Resize ==
    /\ pc = "view"
    /\ \E new_size \in ViewWidths \X ViewHeights :
          /\ cam_size' = resize(new_size)
          /\ call' = [op |-> "resize", given |-> new_size]
    /\ ret' = <<None>>
    /\ UNCHANGED <<terrain, pc, walk_vars, cell_size, view_start, clicked, mouse_position, displayed>>

\* view.get_size()
GetSize ==
    /\ pc = "view"
    /\ call' = [op |-> "get_size", given |-> call.given]
    /\ ret' = <<get_size(cam_size)>>
    /\ UNCHANGED <<terrain, pc, walk_vars, cam_size, cell_size, view_start, clicked, mouse_position,
                   displayed>>

NextSize == Resize \/ GetSize

SpecSize == InitSize /\ [][NextSize]_vars

\* ------------------------------------------------------ the zoom of the View
\* the cell sizes given to View::new, and the factors and the centres given
\* to View::zoom: the two factors of the wheel, a small and a large one, and
\* two that are not positive
CreatedCellSizes == {0, 1, 8, 24, 36, 80, 200, 65535}
ZoomFactors == {<<28, 25>>, <<25, 28>>, <<1, 1000>>, <<1000, 1>>, <<0, 1>>, <<-1, 1>>}

\* View::new(.., cell_size) has returned
InitZoom ==
    /\ terrain = <<>>
    /\ pc = "view"
    /\ NoWalk
    /\ cam_size = WindowSize
    /\ cell_size \in CreatedCellSizes
    /\ view_start = <<0, 0>>
    /\ clicked = None
    /\ mouse_position = None
    /\ call = [op |-> "new"]
    /\ ret = <<None>>

\* view.zoom(zoom_factor, view.get_world_pos(window_pos)); the start point
\* is kept within the reach of the camera
Zoom ==
    /\ pc = "view"
    /\ \E zoom_factor \in ZoomFactors, window_pos \in WindowPositions :
          LET center == IF view_start = NaNPoint THEN NaNPoint
                        ELSE get_world_pos(view_start, window_pos)
              zoomed == zoom(cell_size, view_start, zoom_factor, center)
          IN  /\ call' = [op |-> "zoom", zoom_factor |-> zoom_factor, before |-> cell_size]
              /\ IF zoomed.panic
                 THEN pc' = "panic" /\ ret' = None /\ UNCHANGED <<cell_size, view_start>>
                 ELSE /\ zoomed.start # NaNPoint =>
                            Abs(zoomed.start[1]) <= MaxSlide /\ Abs(zoomed.start[2]) <= MaxSlide
                      /\ cell_size' = zoomed.cell_size
                      /\ view_start' = zoomed.start
                      /\ ret' = <<None>>
                      /\ UNCHANGED pc
    /\ UNCHANGED <<terrain, walk_vars, cam_size, clicked, mouse_position, displayed>>

NextZoom == Zoom

SpecZoom == InitZoom /\ [][NextZoom]_vars

\* ------------------------------------------------------- calls of maths.rs
\* The functions of maths.rs are called on points of a grid of whole cells,
\* in units of 1/128 as everywhere: the call is drawn by Init, the action
\* applies the function and stores what it returns.
SdfReachX == 2
SdfReachY == 1
SdfPoints ==
    { <<PRE_RENDERING_CELL_SIZE * i, PRE_RENDERING_CELL_SIZE * j>> :
        i \in -SdfReachX .. SdfReachX, j \in -SdfReachY .. SdfReachY }

\* the polygons given to sdf_polygon: three points of the unit square, which
\* may coincide
PolygonLen == 3
PolygonPoints == { p \in SdfPoints : p[1] \in {0, PRE_RENDERING_CELL_SIZE} /\ p[2] \in {0, PRE_RENDERING_CELL_SIZE} }
SdfPolygons == [1 .. PolygonLen -> PolygonPoints]

InitMaths ==
    /\ terrain = <<>>
    /\ pc = "maths"
    /\ NoWalk
    /\ cam_size = WindowSize
    /\ cell_size = LaunchCellSize
    /\ view_start = <<0, 0>>
    /\ clicked = None
    /\ mouse_position = None
    /\ call \in [op : {"sdf_segment"}, tested_point : SdfPoints, start : SdfPoints, end : SdfPoints]
                \cup [op : {"sdf_polygon"}, tested_point : SdfPoints, polygon : SdfPolygons]
    /\ ret = None

SdfSegment ==
    /\ pc = "maths"
    /\ call.op = "sdf_segment"
    /\ ret = None
    /\ ret' = <<sdf_segment(call.tested_point, call.start, call.end)>>
    /\ UNCHANGED <<terrain, pc, walk_vars, cam_size, cell_size, view_start, clicked, mouse_position,
                   call, displayed>>

SdfPolygon ==
    /\ pc = "maths"
    /\ call.op = "sdf_polygon"
    /\ ret = None
    /\ ret' = <<sdf_polygon(call.tested_point, call.polygon)>>
    /\ UNCHANGED <<terrain, pc, walk_vars, cam_size, cell_size, view_start, clicked, mouse_position,
                   call, displayed>>

NextMaths == SdfSegment \/ SdfPolygon

SpecMaths == InitMaths /\ [][NextMaths]_vars

\* ----------------------------------------------------- the loop of main.rs
\* the cell size main gives View::new
MainCellSize == 24

\* main before its first frame: the window, the Mouse and the View are built.
\* The frame drawn before the events are polled (lines 34-67) reads the view
\* and the mouse and writes the canvas only, which the model does not hold.
InitMain ==
    /\ terrain = <<>>
    /\ pc = "main"
    /\ NoWalk
    /\ cam_size = WindowSize
    /\ cell_size = MainCellSize
    /\ view_start = <<0, 0>>
    /\ clicked = Mouse_new.clicked
    /\ mouse_position = Mouse_new.position
    /\ call = NoCall
    /\ ret = <<Unit>>

\* Event::Quit, line 71
MainQuit ==
    /\ pc = "main"
    /\ pc' = "quit"
    /\ call' = [op |-> "Quit"]
    /\ ret' = <<Unit>>
    /\ UNCHANGED <<terrain, walk_vars, cam_size, cell_size, view_start, clicked, mouse_position,
                   displayed>>

\* WindowEvent::Resized, lines 72-81
MainResized ==
    /\ pc = "main"
    /\ \E new_size \in WindowSizes :
          IF resize(new_size) = "panic"
          THEN pc' = "panic" /\ ret' = None /\ UNCHANGED cam_size
          ELSE cam_size' = resize(new_size) /\ ret' = <<Unit>> /\ UNCHANGED pc
    /\ call' = [op |-> "Resized"]
    /\ UNCHANGED <<terrain, walk_vars, cell_size, view_start, clicked, mouse_position, displayed>>

\* WindowEvent::Leave, lines 82-87
MainLeave ==
    /\ pc = "main"
    /\ clicked' = reset(mouse).clicked
    /\ mouse_position' = reset(mouse).position
    /\ call' = [op |-> "Leave"]
    /\ ret' = <<Unit>>
    /\ UNCHANGED <<terrain, pc, walk_vars, cam_size, cell_size, view_start, displayed>>

\* Event::MouseMotion, lines 88-94. View::slide is not a method of the View of
\* interface.rs; the model takes it to be move_camera, the method that slides
\* the start point by a vector of the window.
MainMouseMotion ==
    /\ pc = "main"
    /\ \E pos \in WindowPositions :
          LET moved == move_to(mouse, pos)
              slid == IF /\ moved.vec # None
                         /\ get_click(moved.mouse) # None
                         /\ get_click(moved.mouse)[1] \in {"Middle", "Left"}
                      THEN move_camera(view_start, moved.vec)
                      ELSE view_start
          IN  /\ Abs(slid[1]) <= MaxSlide
              /\ Abs(slid[2]) <= MaxSlide
              /\ clicked' = moved.mouse.clicked
              /\ mouse_position' = moved.mouse.position
              /\ view_start' = slid
    /\ call' = [op |-> "MouseMotion"]
    /\ ret' = <<Unit>>
    /\ UNCHANGED <<terrain, pc, walk_vars, cam_size, cell_size, displayed>>

\* Event::MouseButtonDown, lines 95-99
MainMouseButtonDown ==
    /\ pc = "main"
    /\ \E mouse_btn \in MouseButtons, pos \in WindowPositions :
          /\ clicked' = click(mouse, mouse_btn, pos).clicked
          /\ mouse_position' = click(mouse, mouse_btn, pos).position
    /\ call' = [op |-> "MouseButtonDown"]
    /\ ret' = <<Unit>>
    /\ UNCHANGED <<terrain, pc, walk_vars, cam_size, cell_size, view_start, displayed>>

\* Event::MouseButtonUp, lines 100-104
MainMouseButtonUp ==
    /\ pc = "main"
    /\ \E mouse_btn \in MouseButtons, pos \in WindowPositions :
          /\ clicked' = click_up(mouse, mouse_btn, pos).mouse.clicked
          /\ mouse_position' = click_up(mouse, mouse_btn, pos).mouse.position
    /\ call' = [op |-> "MouseButtonUp"]
    /\ ret' = <<Unit>>
    /\ UNCHANGED <<terrain, pc, walk_vars, cam_size, cell_size, view_start, displayed>>

\* Event::MouseWheel, lines 105-108: mouse.position.unwrap() panics on None
\* before zoom is called
MainMouseWheel ==
    /\ pc = "main"
    /\ \E y \in {-1, 1} :
          IF mouse_position = None
          THEN pc' = "panic" /\ ret' = None /\ UNCHANGED <<cell_size, view_start>>
          ELSE LET zoomed == zoom(cell_size, view_start, wheel_factor(y),
                                  get_world_pos(view_start, mouse_position))
               IN  /\ Abs(zoomed.cell_size - MainCellSize) <= MaxZoom
                   /\ Abs(zoomed.start[1]) <= MaxSlide
                   /\ Abs(zoomed.start[2]) <= MaxSlide
                   /\ zoomed.start[1] % MouseStep = 0
                   /\ zoomed.start[2] % MouseStep = 0
                   /\ cell_size' = zoomed.cell_size
                   /\ view_start' = zoomed.start
                   /\ ret' = <<Unit>>
                   /\ UNCHANGED pc
    /\ call' = [op |-> "MouseWheel"]
    /\ UNCHANGED <<terrain, walk_vars, cam_size, clicked, mouse_position, displayed>>

\* the events main polls, one handler at a time
NextMain ==
    \/ MainQuit \/ MainResized \/ MainLeave
    \/ MainMouseMotion \/ MainMouseButtonDown \/ MainMouseButtonUp \/ MainMouseWheel

SpecMain == InitMain /\ [][NextMain]_vars

\* --------------------------------------------------------------- Directions
\* Directions::iter, in its fixed order
Directions_iter ==
    <<"Up", "UpRight", "Right", "DownRight", "Down", "Left", "DownLeft", "UpLeft">>

Directions_dir(d) ==
    CASE d = "Up" -> <<0, -1>>
      [] d = "UpRight" -> <<1, -1>>
      [] d = "Right" -> <<1, 0>>
      [] d = "DownRight" -> <<1, 1>>
      [] d = "Down" -> <<0, 1>>
      [] d = "Left" -> <<-1, 0>>
      [] d = "DownLeft" -> <<-1, 1>>
      [] d = "UpLeft" -> <<-1, -1>>

Directions_turn_right(d) ==
    CASE d = "Up" -> "UpRight"
      [] d = "UpRight" -> "Right"
      [] d = "Right" -> "DownRight"
      [] d = "DownRight" -> "Down"
      [] d = "Down" -> "Left"
      [] d = "Left" -> "DownLeft"
      [] d = "DownLeft" -> "UpLeft"
      [] d = "UpLeft" -> "Up"

Directions_turn_left(d) ==
    CASE d = "UpRight" -> "Up"
      [] d = "Right" -> "UpRight"
      [] d = "DownRight" -> "Right"
      [] d = "Down" -> "DownRight"
      [] d = "Left" -> "Down"
      [] d = "DownLeft" -> "Left"
      [] d = "UpLeft" -> "DownLeft"
      [] d = "Up" -> "UpLeft"

\* the turns made on one direction in a row
MaxTurns == 3

\* a direction is drawn; call.start is that direction, call.turns the turns
\* made on it so far and ret the direction they have led to
InitDirections ==
    /\ terrain = <<>>
    /\ pc = "directions"
    /\ NoWalk
    /\ cam_size = WindowSize
    /\ cell_size = LaunchCellSize
    /\ view_start = <<0, 0>>
    /\ clicked = None
    /\ mouse_position = None
    /\ \E i \in 1 .. Len(Directions_iter) :
          /\ call = [op |-> "iter", start |-> Directions_iter[i], turns |-> <<>>]
          /\ ret = <<Directions_iter[i]>>

\* direction.turn_right() on the direction last returned
DirectionsTurnRight ==
    /\ pc = "directions"
    /\ Len(call.turns) < MaxTurns
    /\ call' = [op |-> "turn_right", start |-> call.start,
                turns |-> Append(call.turns, "turn_right")]
    /\ ret' = <<Directions_turn_right(ret[1])>>
    /\ UNCHANGED <<terrain, pc, walk_vars, cam_size, cell_size, view_start, clicked, mouse_position,
                   displayed>>

\* direction.turn_left() on the direction last returned
DirectionsTurnLeft ==
    /\ pc = "directions"
    /\ Len(call.turns) < MaxTurns
    /\ call' = [op |-> "turn_left", start |-> call.start,
                turns |-> Append(call.turns, "turn_left")]
    /\ ret' = <<Directions_turn_left(ret[1])>>
    /\ UNCHANGED <<terrain, pc, walk_vars, cam_size, cell_size, view_start, clicked, mouse_position,
                   displayed>>

NextDirections == DirectionsTurnRight \/ DirectionsTurnLeft

SpecDirections == InitDirections /\ [][NextDirections]_vars

\* ------------------------------------------------------------------ claims
\* the tracing phase of the current pre_render call has finished
TracingDone == pc = "done"

\* the boundary edges computed directly from the map: (c, n) with c a non-Empty
\* cell, n one of its four axis neighbours and get_tile(n) # get_tile(c)
BoundaryEdges ==
    { e \in Cells \X ((-1 .. Width) \X (-1 .. Height)) :
        /\ get_tile(e[1]) # Empty
        /\ Abs(e[2][1] - e[1][1]) + Abs(e[2][2] - e[1][2]) = 1
        /\ get_tile(e[2]) # get_tile(e[1]) }

\* the places <<loop, index>> of the traced sequences that hold the pair e
Occurrences(e) ==
    { o \in UNION { {l} \X (1 .. Len(traced[l].border)) : l \in 1 .. Len(traced) } :
        traced[o[1]].border[o[2]] = e }

\* the same, without the last element of each traced sequence
OpenOccurrences(e) == { o \in Occurrences(e) : o[2] < Len(traced[o[1]].border) }

\* C1 as stated: when tracing has finished every boundary edge occurs exactly
\* once in the traced sequences of all loops together, and nothing else occurs.
C1_EveryEdgeOnce ==
    TracingDone =>
        /\ \A e \in BoundaryEdges : Cardinality(Occurrences(e)) = 1
        /\ \A l \in 1 .. Len(traced) : \A i \in 1 .. Len(traced[l].border) :
              traced[l].border[i] \in BoundaryEdges

\* C1 amended: every boundary edge occurs in exactly one loop and exactly once
\* there, apart from the loop's start pair, which the walk pushes a second time
\* as the last element when it comes back to it.
C1_EveryEdgeOnceButClosing ==
    TracingDone =>
        /\ \A e \in BoundaryEdges : Cardinality(OpenOccurrences(e)) = 1
        /\ \A l \in 1 .. Len(traced) :
              LET b == traced[l].border
              IN  /\ \A i \in 1 .. Len(b) : b[i] \in BoundaryEdges
                  /\ Len(b) >= 2
                  /\ b[Len(b)] = b[1]

\* a map with two loops has been traced
C1_Witness == TracingDone /\ Len(traced) = 2 /\ Cardinality(BoundaryEdges) >= 8

\* C2: the call runs to completion: every walk that has started comes back to
\* its start pair, and pre_render leaves the while with the working set empty.
C2_TracingTerminates ==
    /\ (pc = "loop") ~> (pc = "emit")
    /\ <>(pc = "done" /\ border_cells = {})

\* a call that walked three loops has completed
C2_Witness == pc = "done" /\ Len(traced) = 3

\* the points of the traced sequence b
PointsOf(b) == [i \in 1 .. Len(b) |-> border_point(b[i])]

\* the point lists of the emitted loops of kind t, in the order of emission
RECURSIVE EmittedPoints(_, _)
EmittedPoints(t, n) ==
    IF n = 0 THEN <<>>
    ELSE IF traced[n].tile = t
         THEN Append(EmittedPoints(t, n - 1), PointsOf(traced[n].border))
         ELSE EmittedPoints(t, n - 1)

Range(f) == { f[i] : i \in DOMAIN f }

\* C3: every emitted loop is closed and not degenerate: its first and last
\* traced pair are the same pair, so its first and last point coincide, and it
\* has at least 3 points (at least 3 different ones).  borders_list holds the
\* points of exactly the traced sequences.
C3_LoopsClosed ==
    /\ \A l \in 1 .. Len(traced) :
          LET b == traced[l].border
          IN  b[1] = b[Len(b)] /\ traced[l].tile \in DOMAIN borders_list
    /\ \A t \in DOMAIN borders_list :
          /\ borders_list[t] = EmittedPoints(t, Len(traced))
          /\ \A i \in 1 .. Len(borders_list[t]) :
                LET polygon == borders_list[t][i]
                IN  /\ Len(polygon) >= 3
                    /\ polygon[1] = polygon[Len(polygon)]
                    /\ Cardinality(Range(polygon)) >= 3

\* a loop around a hole and a loop around a region have been emitted
C3_Witness ==
    /\ pc = "done"
    /\ Dirt \in DOMAIN borders_list
    /\ Len(borders_list[Dirt]) = 2
    /\ \E i \in 1 .. 2 : Len(borders_list[Dirt][i]) = 13

\* C4: two calls of pre_render on the same map leave the same borders_list:
\* the same point sequences in the same order for every kind.
C4_Deterministic == (run = 2 /\ pc = "done") => borders_list = previous

\* two calls of pre_render on the same map have completed, and traced loops
C4_Witness == run = 2 /\ pc = "done" /\ DOMAIN borders_list # {} /\ DOMAIN previous # {}

\* sum over consecutive points of x_i * y_(i+1) - x_(i+1) * y_i
RECURSIVE ShoelaceFrom(_, _)
ShoelaceFrom(polygon, i) ==
    IF i >= Len(polygon) THEN 0
    ELSE polygon[i][1] * polygon[i + 1][2] - polygon[i + 1][1] * polygon[i][2]
         + ShoelaceFrom(polygon, i + 1)

Shoelace(polygon) == ShoelaceFrom(polygon, 1)

\* the topmost, then leftmost, inside cell of the traced sequence b
TopCell(b) ==
    LET cs == { b[i][1] : i \in 1 .. Len(b) }
    IN  CHOOSE c \in cs : \A k \in cs : c[2] < k[2] \/ (c[2] = k[2] /\ c[1] <= k[1])

\* b is the outer boundary of its region: it holds the upper edge of its
\* topmost cell.  (The loop around a hole lies below the region's cells that
\* close the hole from above, so the upper edge of its topmost cell is not one
\* of its pairs.)
IsOuter(b) == \E i \in 1 .. Len(b) : b[i] = <<TopCell(b), move_cell(TopCell(b), "Up")>>

NonEmptyCells == { c \in DOMAIN terrain : terrain[c] # Empty }

\* the midpoints of the four edges of cell c, in world units of 1/128
TopPoint(c) == <<128 * c[1] + 64, 128 * c[2]>>
LeftPoint(c) == <<128 * c[1], 128 * c[2] + 64>>
BottomPoint(c) == <<128 * c[1] + 64, 128 * c[2] + 128>>
RightPoint(c) == <<128 * c[1] + 128, 128 * c[2] + 64>>

EdgeMidpoints(c) == {TopPoint(c), LeftPoint(c), BottomPoint(c), RightPoint(c)}

\* all the emitted loops, whatever their kind
AllLoops == UNION { Range(borders_list[t]) : t \in DOMAIN borders_list }

LoopCount(t) == IF t \in DOMAIN borders_list THEN Len(borders_list[t]) ELSE 0

NextAround(c, p) ==
    CASE p = TopPoint(c) -> LeftPoint(c)
      [] p = LeftPoint(c) -> BottomPoint(c)
      [] p = BottomPoint(c) -> RightPoint(c)
      [] p = RightPoint(c) -> TopPoint(c)
      [] OTHER -> None

TwoCellBlock ==
    /\ Cardinality(NonEmptyCells) = 2
    /\ \E c \in NonEmptyCells :
          /\ <<c[1] + 1, c[2]>> \in NonEmptyCells
          /\ terrain[<<c[1] + 1, c[2]>>] = terrain[c]

\* the boundary edges' midpoints: for the 2x1 block, the 6 points of its perimeter
PerimeterPoints == { border_point(e) : e \in BoundaryEdges }

\* the midpoints of pairs of two 4-adjacent cells of the same non-Empty kind
InteriorPoints ==
    { border_point(<<x[1], move_cell(x[1], x[2])>>) :
        x \in { y \in NonEmptyCells \X {"Up", "Left", "Down", "Right"} :
                   get_tile(move_cell(y[1], y[2])) = get_tile(y[1]) } }

\* C7 as stated: the 2x1 block gives exactly one loop, of 6 points, around its
\* perimeter; the pair of the two cells of the block contributes no point.
C7_TwoCellsSixPoints ==
    (pc = "done" /\ TwoCellBlock) =>
        /\ Cardinality(AllLoops) = 1
        /\ \A t \in DOMAIN borders_list : Len(borders_list[t]) = 1
        /\ \A polygon \in AllLoops :
              /\ Len(polygon) = 6
              /\ Range(polygon) = PerimeterPoints
              /\ Range(polygon) \cap InteriorPoints = {}

\* C7 amended: the one loop has 7 points: the 6 perimeter midpoints, each
\* once, and the first of them once more as the closing point.
C7_TwoCellsSevenPoints ==
    (pc = "done" /\ TwoCellBlock) =>
        /\ Cardinality(AllLoops) = 1
        /\ \A t \in DOMAIN borders_list : Len(borders_list[t]) = 1
        /\ \A polygon \in AllLoops :
              /\ Len(polygon) = 7
              /\ polygon[7] = polygon[1]
              /\ Cardinality({ polygon[i] : i \in 1 .. 6 }) = 6
              /\ Range(polygon) = PerimeterPoints
              /\ Cardinality(PerimeterPoints) = 6
              /\ Range(polygon) \cap InteriorPoints = {}

\* a 2x1 block has been traced, and the walk went through the pair of its two cells
C7_Witness ==
    /\ pc = "done"
    /\ TwoCellBlock
    /\ InteriorPoints # {}
    /\ \E polygon \in AllLoops : Len(polygon) = 7

\* the 3x3 block of Dirt whose centre cell (1, 1) is Empty
RingCells == ((0 .. 2) \X (0 .. 2)) \ {<<1, 1>>}

RingMap == NonEmptyCells = RingCells /\ \A c \in RingCells : terrain[c] = Dirt

\* the number of boundary edges of a traced sequence
EdgeCount(b) == Cardinality(Range(b))

\* the traced sequences l and k are wound in opposite rotational senses
OppositeWinding(l, k) ==
    LET sl == Shoelace(PointsOf(traced[l].border))
        sk == Shoelace(PointsOf(traced[k].border))
    IN  (sl > 0 /\ sk < 0) \/ (sl < 0 /\ sk > 0)

\* the cells of the traced sequence b all lie around the hole (1, 1)
AroundHole(b) == \A i \in 1 .. Len(b) : b[i][2] = <<1, 1>>

\* C8 as stated: the ring gives exactly 2 Dirt loops, the outer one of 8
\* boundary edges and the hole's of 4, wound in opposite senses.
C8_RingEightAndFour ==
    (pc = "done" /\ RingMap) =>
        /\ DOMAIN borders_list = {Dirt}
        /\ Len(borders_list[Dirt]) = 2
        /\ \E l, k \in 1 .. Len(traced) :
              /\ ~AroundHole(traced[l].border)
              /\ EdgeCount(traced[l].border) = 8
              /\ AroundHole(traced[k].border)
              /\ EdgeCount(traced[k].border) = 4
              /\ OppositeWinding(l, k)

\* C8 amended: the ring gives exactly 2 Dirt loops, the outer one of 12
\* boundary edges (13 points) and the hole's of 4 (5 points), wound in
\* opposite senses.
C8_RingTwelveAndFour ==
    (pc = "done" /\ RingMap) =>
        /\ DOMAIN borders_list = {Dirt}
        /\ Len(borders_list[Dirt]) = 2
        /\ Len(traced) = 2
        /\ \E l, k \in 1 .. Len(traced) :
              /\ ~AroundHole(traced[l].border)
              /\ EdgeCount(traced[l].border) = 12
              /\ Len(traced[l].border) = 13
              /\ AroundHole(traced[k].border)
              /\ EdgeCount(traced[k].border) = 4
              /\ Len(traced[k].border) = 5
              /\ OppositeWinding(l, k)

\* the ring has been traced, the hole's loop first
C8_Witness ==
    /\ pc = "done"
    /\ RingMap
    /\ Len(traced) = 2
    /\ AroundHole(traced[1].border)

\* every pair the tracer holds: discovered, being walked, or traced
HeldPairs ==
    border_cells \cup Range(border)
        \cup UNION { Range(traced[l].border) : l \in 1 .. Len(traced) }
        \cup (IF pc \in {"loop", "emit"} THEN {first, current} ELSE {})

\* C9: whatever the map, cells set to Empty included, borders_list has no
\* entry for Empty, no loop is traced for Empty, and no pair the tracer holds
\* has an Empty inside cell: Empty cells are outside cells only.
C9_NoEmptyKey ==
    /\ Empty \notin DOMAIN borders_list
    /\ \A l \in 1 .. Len(traced) : traced[l].tile # Empty
    /\ pc \in {"loop", "emit"} => tile # Empty
    /\ \A e \in HeldPairs : get_tile(e[1]) # Empty

\* a map with a cell set to Empty has been traced, and that cell is the
\* outside cell of a traced pair
C9_Witness ==
    /\ pc = "done"
    /\ \E c \in DOMAIN terrain :
          /\ terrain[c] = Empty
          /\ \E l \in 1 .. Len(traced) :
                \E i \in 1 .. Len(traced[l].border) : traced[l].border[i][2] = c

\* C10: with no cell set, pre_render does not panic, and when it is done
\* border_cells and borders_list are empty and every pixel of the buffer is
\* (255, 255, 255, 255).
C10_EmptyGrid ==
    (DOMAIN terrain = {}) =>
        /\ pc # "panic"
        /\ pc \notin {"loop", "emit"}
        /\ border_cells = {}
        /\ DOMAIN borders_list = {}
        /\ pc = "done" =>
              /\ pixels(texture) # {}
              /\ \A p \in pixels(texture) : buffer(texture, p) = <<255, 255, 255, 255>>

\* pre_render is done on the map with no cell set, and has filled a buffer
C10_Witness ==
    /\ DOMAIN terrain = {}
    /\ pc = "done"
    /\ Cardinality(pixels(texture)) > 1

\* x < 0. and x > 0. on a distance
lt_zero(x) == x.cls # "nan" /\ x.sgn < 0
gt_zero(x) == x.cls # "nan" /\ x.sgn > 0

\* the four axis neighbours of cell c
Neighbours(c) == { move_cell(c, s) : s \in {"Up", "Right", "Down", "Left"} }

\* the cells of tile t that are 4-connected to a cell of S: the region of S
RECURSIVE RegionOf(_, _)
RegionOf(S, t) ==
    LET more == { n \in UNION { Neighbours(c) : c \in S } : get_tile(n) = t } \ S
    IN  IF more = {} THEN S ELSE RegionOf(S \cup more, t)

InsideCells(b) == { b[i][1] : i \in 1 .. Len(b) }

\* the region that the traced loop l bounds
LoopRegion(l) == RegionOf(InsideCells(traced[l].border), traced[l].tile)

\* the region of the traced loop l has no hole: every traced loop of its
\* cells is an outer loop
HoleFree(l) ==
    \A k \in 1 .. Len(traced) :
        (traced[k].tile = traced[l].tile /\ InsideCells(traced[k].border) \subseteq LoopRegion(l))
            => IsOuter(traced[k].border)

\* sdf_multiple_polygons over the loops of kind t, at the centre of cell c
CentreDistance(t, c) == sdf_multiple_polygons(center_point(c), borders_list[t])

\* C11: when the call is done, for every traced loop whose region has no hole,
\* the distance to the loops of the region's kind is negative at the centre of
\* every inside cell of the loop, and positive at the centre of every cell of
\* another kind that is 4-adjacent to the region.
C11_SignCorrect ==
    pc = "done" =>
        \A l \in 1 .. Len(traced) :
            HoleFree(l) =>
                /\ \A c \in InsideCells(traced[l].border) :
                      lt_zero(CentreDistance(traced[l].tile, c))
                /\ \A n \in UNION { Neighbours(c) : c \in LoopRegion(l) } :
                      get_tile(n) # traced[l].tile => gt_zero(CentreDistance(traced[l].tile, n))

\* an L-shaped Dirt region next to a cell of another kind has been traced
C11_Witness ==
    /\ pc = "done"
    /\ \E l \in 1 .. Len(traced) :
          /\ HoleFree(l)
          /\ Cardinality(LoopRegion(l)) = 3
          /\ \E n \in UNION { Neighbours(c) : c \in LoopRegion(l) } :
                get_tile(n) \notin {Empty, traced[l].tile}

\* the spacing, in units of 1/128, of the points sampled inside the island
IslandStep == 16

\* the sampled points strictly inside the island cell (1, 1) of the ring: the
\* centre (1.5, 1.5) and the points at multiples of IslandStep from it
IslandPoints ==
    { <<192 + o[1] * IslandStep, 192 + o[2] * IslandStep>> :
        o \in { k \in (-4 .. 4) \X (-4 .. 4) :
                  Abs(k[1]) * IslandStep < 64 /\ Abs(k[2]) * IslandStep < 64 } }

\* those strictly inside the hole loop, the square on the midpoints
\* (1.5, 1), (1, 1.5), (1.5, 2), (2, 1.5) of the island's four edges
HolePoints == { q \in IslandPoints : Abs(q[1] - 192) + Abs(q[2] - 192) < 64 }

\* C12 as stated: for the 3x3 Dirt block with Empty centre, the distance to the
\* Dirt loops is positive at every point inside the island, its centre
\* (1.5, 1.5) among them.
C12_IslandOutside ==
    (pc = "done" /\ RingMap) =>
        /\ gt_zero(sdf_multiple_polygons(<<192, 192>>, borders_list[Dirt]))
        /\ \A q \in IslandPoints : gt_zero(sdf_multiple_polygons(q, borders_list[Dirt]))

\* C12 amended: the distance to the Dirt loops is positive at every point
\* inside the hole loop, the centre (1.5, 1.5) among them.
C12_HoleLoopOutside ==
    (pc = "done" /\ RingMap) =>
        /\ gt_zero(sdf_multiple_polygons(<<192, 192>>, borders_list[Dirt]))
        /\ \A q \in HolePoints : gt_zero(sdf_multiple_polygons(q, borders_list[Dirt]))

\* the ring has been traced and both loops are in the Dirt entry, the outer one first
C12_Witness ==
    /\ pc = "done"
    /\ RingMap
    /\ Len(borders_list[Dirt]) = 2
    /\ Len(borders_list[Dirt][1]) = 13
    /\ Cardinality(HolePoints) > 1

\* the tile of cell c in the map m
TileIn(m, c) == IF c \in DOMAIN m THEN m[c] ELSE default_tile

\* the maps m and n give every cell the same tile
SameTiles(m, n) == \A c \in DOMAIN m \cup DOMAIN n : TileIn(m, c) = TileIn(n, c)

\* C13: whatever set_tile and render calls are made, the texture that a
\* render call has copied was computed from the tiles the map holds now.
C13_NeverStale ==
    (call.op = "render" /\ ret # None) => SameTiles(displayed, terrain)

\* render has copied a texture after a set_tile call that changed a tile
C13_Witness ==
    /\ call.op = "render"
    /\ ret # None
    /\ displayed # terrain
    /\ Dirt \in Range(terrain)

\* the distance of the pixel p of the texture to the loops of kind k
PixelDistance(tex, k, p) ==
    sdf_multiple_polygons(<<tex.starting_world_pos[1] + p[1], tex.starting_world_pos[2] + p[2]>>,
                          tex.borders_list[k])

\* the kinds whose distance at pixel p has the smallest magnitude
NearestKinds(tex, p) ==
    { k \in DOMAIN tex.borders_list :
        \A j \in DOMAIN tex.borders_list :
            ~abs_lt(PixelDistance(tex, j, p), PixelDistance(tex, k, p)) }

\* the kind a filled pixel was coloured with: the bytes hold its colour
ColouredWith(bytes, k) ==
    /\ bytes # <<255, 255, 255, 255>>
    /\ bytes[1] = tile_color(k)[3]
    /\ bytes[2].g = tile_color(k)[2]
    /\ bytes[3] = tile_color(k)[1]

\* the bytes of pixel p had the for visited the kinds in the order o
BytesInOrder(tex, o, p) ==
    pixel_bytes(tex.borders_list, o, 1,
                <<tex.starting_world_pos[1] + p[1], tex.starting_world_pos[2] + p[2]>>)

\* the pixel's bytes are the same whatever the order of the kinds
OrderIndependent(tex, p) ==
    \A o \in key_orders(DOMAIN tex.borders_list) : BytesInOrder(tex, o, p) = buffer(tex, p)

\* C14 as stated: every pixel is coloured with the kind whose distance has the
\* smallest magnitude, if that distance is <= 0, and is background otherwise;
\* the kind chosen does not depend on the order in which the kinds are visited.
C14_NearestKind ==
    pc = "done" =>
        \A p \in pixels(texture) :
            /\ OrderIndependent(texture, p)
            /\ \A k \in NearestKinds(texture, p) :
                  IF le_zero(PixelDistance(texture, k, p))
                  THEN ColouredWith(buffer(texture, p), k)
                  ELSE buffer(texture, p) = <<255, 255, 255, 255>>

\* the order of the kinds alone
C14_OrderOnly == pc = "done" => \A p \in pixels(texture) : OrderIndependent(texture, p)

\* a map of two kinds has been rendered, and a pixel is filled
C14_Witness ==
    /\ pc = "done"
    /\ Cardinality(DOMAIN texture.borders_list) = 2
    /\ \E p \in pixels(texture) : buffer(texture, p) # <<255, 255, 255, 255>>

\* the smallest and the largest member of a non-empty set of integers
Smallest(S) == CHOOSE v \in S : \A w \in S : v <= w
Largest(S) == CHOOSE v \in S : \A w \in S : v >= w

\* the smallest rectangle of cells covering the cells iter_tiles enumerates
BoundingCells(m) ==
    <<<<Smallest({ c[1] : c \in DOMAIN m }), Smallest({ c[2] : c \in DOMAIN m })>>,
      <<Largest({ c[1] : c \in DOMAIN m }), Largest({ c[2] : c \in DOMAIN m })>>>>

\* C15 as stated: for a non-empty grid the cell range pre_render stores is the
\* smallest rectangle covering the populated cells, and the buffer has 128
\* pixels per cell of that rectangle.
C15_SmallestRectangle ==
    (pc = "done" /\ DOMAIN terrain # {}) =>
        /\ cell_coverage = BoundingCells(terrain)
        /\ texture.size[1] = 128 * (BoundingCells(terrain)[2][1] - BoundingCells(terrain)[1][1] + 1)
        /\ texture.size[2] = 128 * (BoundingCells(terrain)[2][2] - BoundingCells(terrain)[1][2] + 1)

\* a grid whose populated cells leave out the column and the row of cell (0, 0)
\* has been pre-rendered
C15_Witness ==
    /\ pc = "done"
    /\ DOMAIN terrain # {}
    /\ \A c \in DOMAIN terrain : c[1] > 0 /\ c[2] > 0

\* (end - start) x (p - start): positive on one side of the line through start
\* and end, negative on the other, 0 on the line
Cross(p, start, end) ==
    (end[1] - start[1]) * (p[2] - start[2]) - (end[2] - start[2]) * (p[1] - start[1])

\* the projection of p on the line falls outside the segment
ProjectsOutside(p, start, end) ==
    \/ (end[1] - start[1]) * (p[1] - start[1]) + (end[2] - start[2]) * (p[2] - start[2]) < 0
    \/ (start[1] - end[1]) * (p[1] - end[1]) + (start[2] - end[2]) * (p[2] - end[2]) < 0

\* the square of the distance from p to the nearer of start and end
NearerEndpoint2(p, start, end) ==
    LET ds == (p[1] - start[1]) * (p[1] - start[1]) + (p[2] - start[2]) * (p[2] - start[2])
        de == (p[1] - end[1]) * (p[1] - end[1]) + (p[2] - end[2]) * (p[2] - end[2])
    IN  IF ds < de THEN ds ELSE de

\* x is the distance to the nearer endpoint, signed by the side of the line
CappedAt(x, p, start, end) ==
    /\ x.cls = "fin"
    /\ x.num = NearerEndpoint2(p, start, end) * x.den
    /\ Cross(p, start, end) # 0 => x.sgn = -Sign(Cross(p, start, end))

\* sdf_segment has returned from a call with start # end
SegmentReturned ==
    pc = "maths" /\ call.op = "sdf_segment" /\ ret # None /\ call.start # call.end

\* the call sdf_segment((px, py), (-1, 0), (1, 0)) in cells
OnUnitSegment(px, py) ==
    /\ call.tested_point = <<128 * px, 128 * py>>
    /\ call.start = <<-128, 0>>
    /\ call.end = <<128, 0>>

\* C16 as stated: whenever the projection of the point falls outside the
\* segment, sdf_segment returns the distance to the nearer endpoint, signed by
\* the side of the line; sdf_segment((2,0), (-1,0), (1,0)) has magnitude 1 and
\* sdf_segment((0,0), (-1,0), (1,0)) is 0.
C16_EndpointCapping ==
    SegmentReturned =>
        /\ ProjectsOutside(call.tested_point, call.start, call.end)
              => CappedAt(ret[1], call.tested_point, call.start, call.end)
        /\ OnUnitSegment(2, 0) => (ret[1].cls = "fin" /\ ret[1].num = 128 * 128 * ret[1].den)
        /\ OnUnitSegment(0, 0) => (ret[1].cls = "fin" /\ ret[1].num = 0)

\* C16, amended: the capping holds for the points off the line; a point of the
\* line whose projection falls outside the segment gets f32::MAX, so
\* sdf_segment((2,0), (-1,0), (1,0)) is f32::MAX, and
\* sdf_segment((0,0), (-1,0), (1,0)) is 0.
C16_CappingOffTheLine ==
    SegmentReturned =>
        /\ (/\ ProjectsOutside(call.tested_point, call.start, call.end)
            /\ Cross(call.tested_point, call.start, call.end) # 0)
              => CappedAt(ret[1], call.tested_point, call.start, call.end)
        /\ (/\ ProjectsOutside(call.tested_point, call.start, call.end)
            /\ Cross(call.tested_point, call.start, call.end) = 0)
              => ret[1] = MAX
        /\ OnUnitSegment(2, 0) => ret[1] = MAX
        /\ OnUnitSegment(0, 0) => (ret[1].cls = "fin" /\ ret[1].num = 0)

\* sdf_segment has returned for a point off the line that projects outside
\* the segment, at different distances of the two endpoints
C16_Witness ==
    /\ SegmentReturned
    /\ ProjectsOutside(call.tested_point, call.start, call.end)
    /\ Cross(call.tested_point, call.start, call.end) # 0
    /\ dist2(call.tested_point, call.start) # dist2(call.tested_point, call.end)
    /\ ret[1].cls = "fin"

\* the cells a and b are the same cell or share a side
SameOrAdjacent(a, b) == Abs(a[1] - b[1]) + Abs(a[2] - b[2]) <= 1

\* every two consecutive pairs of the sequence have inside cells that are the
\* same or share a side
NoGaps(pairs) ==
    \A i \in 1 .. Len(pairs) - 1 : SameOrAdjacent(pairs[i][1], pairs[i + 1][1])

\* C17 as stated: within every loop, two consecutively appended pairs have
\* inside cells that are the same cell or 4-adjacent cells.
C17_NoGaps ==
    /\ NoGaps(border)
    /\ \A l \in 1 .. Len(traced) : NoGaps(traced[l].border)

\* a loop has been traced that runs along two cells that share a side and
\* turns around a concave corner
C17_Witness ==
    /\ pc = "done"
    /\ \E l \in 1 .. Len(traced) :
          /\ \E i \in 1 .. Len(traced[l].border) - 1 :
                Abs(traced[l].border[i][1][1] - traced[l].border[i + 1][1][1])
                    + Abs(traced[l].border[i][1][2] - traced[l].border[i + 1][1][2]) = 1
          /\ \E i \in 1 .. Len(traced[l].border) - 1 :
                Abs(traced[l].border[i][1][1] - traced[l].border[i + 1][1][1])
                    + Abs(traced[l].border[i][1][2] - traced[l].border[i + 1][1][2]) = 2

\* the cells a and b touch at a corner only
Diagonal(a, b) == Abs(a[1] - b[1]) = 1 /\ Abs(a[2] - b[2]) = 1

\* consecutive pairs turn around one inside cell, run along two inside cells
\* that share a side, or turn around one outside cell between two inside
\* cells that touch at a corner
Connected(pairs) ==
    \A i \in 1 .. Len(pairs) - 1 :
        \/ SameOrAdjacent(pairs[i][1], pairs[i + 1][1])
        \/ pairs[i][2] = pairs[i + 1][2] /\ Diagonal(pairs[i][1], pairs[i + 1][1])

\* C17, amended: two consecutively appended pairs have inside cells that are
\* the same cell or 4-adjacent cells, or, at a concave corner, the same outside
\* cell and inside cells that touch at a corner.
C17_NoGapsButConcave ==
    /\ Connected(border)
    /\ \A l \in 1 .. Len(traced) : Connected(traced[l].border)

\* set_tile has returned
SetTileReturned == call.op = "set_tile" /\ ret # None

\* what the call leaves: the tile at position, and every other cell as before
SetTileEffect ==
    /\ TileIn(terrain, call.position) = call.tile
    /\ \A c \in CacheCells \ {call.position} : TileIn(terrain, c) = TileIn(call.before, c)
    /\ ret[1] = FALSE => terrain = call.before

C18_ReturnedFalse == SetTileReturned /\ ret[1] = FALSE

\* C19: whenever clicked is Some, position is Some, and launch never panics:
\* the unwrap of mouse.position under a held right button finds a position.
C19_ClickedHasPosition ==
    /\ clicked # None => mouse_position # None
    /\ pc # "panic"

\* the right button is held, and the handler of the click has set the cell
\* under the mouse and returned
C19_Witness ==
    /\ call.op = "MouseButtonDown"
    /\ clicked # None
    /\ clicked[1] = "Right"
    /\ mouse_position # None
    /\ world_cell(get_world_pos(view_start, mouse_position)) \in DOMAIN terrain
    /\ ret # None

\* C20 as stated: get_size returns the (width, height) pair most recently
\* given to View::new or View::resize.
C20_SizeLastGiven ==
    (pc = "view" /\ call.op = "get_size") => ret[1] = call.given

\* get_size has returned for a view of 640 x 480, the size last given
C20_Witness ==
    /\ pc = "view"
    /\ call.op = "get_size"
    /\ call.given = <<640, 480>>
    /\ cam_size = <<640, 480>>

\* sdf_segment has returned from a call with start = end
DegenerateReturned ==
    pc = "maths" /\ call.op = "sdf_segment" /\ ret # None /\ call.start = call.end

\* sdf_polygon has returned from a call
PolygonReturned == pc = "maths" /\ call.op = "sdf_polygon" /\ ret # None

\* the segments of the polygon of the call whose two ends differ
ProperSegments ==
    { i \in 2 .. Len(call.polygon) : call.polygon[i - 1] # call.polygon[i] }

\* x is the value of smallest magnitude among -sdf_segment over the segments
\* of the set S, the first of them in the order of the polygon, or f32::MAX
\* when none is below it
LeastOver(x, S) ==
    LET d(i) == neg(sdf_segment(call.tested_point, call.polygon[i - 1], call.polygon[i]))
    IN  /\ x.cls # "nan"
        /\ \A i \in S : ~abs_lt(d(i), x)
        /\ \/ x = MAX
           \/ \E i \in S : x = d(i)

C21_DegenerateCall == DegenerateReturned /\ call.tested_point # call.start

C22_RenderedFromCurrent ==
    /\ Idle => traced_terrain = terrain
    /\ (call.op = "render" /\ ret # None) => displayed = terrain

\* a frame has rendered a map with a cell set by a right click, after the
\* wheel has changed the cell size
C22_Witness ==
    /\ call.op = "render"
    /\ ret # None
    /\ displayed = terrain
    /\ Cardinality(DOMAIN terrain) >= 2
    /\ cell_size # 36

\* the offset from the inside cell of the pair to its outside cell is one of
\* the four axis unit vectors
AxisOffset(pair) ==
    <<pair[2][1] - pair[1][1], pair[2][2] - pair[1][2]>>
        \in {<<0, -1>>, <<1, 0>>, <<0, 1>>, <<-1, 0>>}

\* C23: every pair of the working set and every start pair has an axis unit
\* offset, and the unwrap of Side::from_dir at the start of a loop never
\* panics.
C23_AxisOffsets ==
    /\ \A pair \in border_cells : AxisOffset(pair)
    /\ first # None => AxisOffset(first)
    /\ pc # "panic"

\* a loop has been started from a pair whose outside cell is to the left of
\* its inside cell, with other pairs left in the working set
C23_Witness ==
    /\ pc = "loop"
    /\ first # None
    /\ first[2] = <<first[1][1] - 1, first[1][2]>>
    /\ current_dir # NoSide
    /\ border_cells # {}

\* click_up has returned
ClickUpReturned == pc = "mouse" /\ call.op = "click_up"

\* a click of the button released was recorded when click_up was called
SameButtonHeld == call.before.clicked # None /\ call.before.clicked[1] = call.button

\* C24: click_up sets position to Some(pos); it clears clicked and returns
\* Some(click position - pos) iff a click of the same button is recorded, and
\* otherwise returns None and leaves clicked as it was.
C24_ClickUp ==
    ClickUpReturned =>
        /\ mouse_position = call.pos
        /\ IF SameButtonHeld
           THEN /\ clicked = <<>>
                /\ ret[1] = <<call.before.clicked[2][1] - call.pos[1],
                              call.before.clicked[2][2] - call.pos[2]>>
           ELSE /\ clicked = call.before.clicked
                /\ ret[1] = <<>>

\* another button than the recorded one has been released, away from the
\* place of the click
C24_Witness ==
    /\ ClickUpReturned
    /\ call.before.clicked # <<>>
    /\ call.before.clicked[1] # call.button
    /\ call.before.clicked[2] # call.pos
    /\ clicked # <<>>

\* the recorded button has been released away from the place of the click
C24_Released ==
    /\ ClickUpReturned
    /\ SameButtonHeld
    /\ call.before.clicked[2] # call.pos

\* C25: after a zoom call that returned, whatever the cell size the view was
\* created with, the cell size is in 8..=80.
C25_CellSizeClamped ==
    (pc = "view" /\ call.op = "zoom") => (8 <= cell_size /\ cell_size <= 80)

\* zoom by 1.12 has returned for a view whose cell size was 200, above the
\* range: the cell size is 80
C25_Witness ==
    /\ pc = "view"
    /\ call.op = "zoom"
    /\ call.before = 200
    /\ call.zoom_factor = <<28, 25>>
    /\ cell_size = 80

\* zoom has panicked on a factor that is not positive
C25_Panicked == pc = "panic" /\ call.op = "zoom" /\ call.zoom_factor[1] <= 0

\* the cells of kind t that are reached from cell c by moves between
\* 4-adjacent cells of kind t
ComponentOf(c, t) == RegionOf({c}, t)

\* C26: during the walk the current inside cell holds the kind of the loop
\* and is in the 4-connected component of the start inside cell, as every
\* inside cell of every loop is; two cells of one kind that touch only at a
\* corner are never inside cells of the same loop unless a path of that kind
\* joins them.
C26_OneComponent ==
    /\ pc \in {"loop", "emit"} =>
          /\ get_tile(current[1]) = tile
          /\ current[1] \in ComponentOf(first[1], tile)
          /\ InsideCells(border) \subseteq ComponentOf(first[1], tile)
    /\ \A l \in 1 .. Len(traced) :
          /\ \A c \in InsideCells(traced[l].border) : get_tile(c) = traced[l].tile
          /\ InsideCells(traced[l].border) \subseteq ComponentOf(traced[l].border[1][1], traced[l].tile)

\* two cells of one kind that touch only at a corner have been traced as two
\* loops
C26_Witness ==
    /\ pc = "done"
    /\ get_tile(<<0, 0>>) = Dirt
    /\ get_tile(<<1, 1>>) = Dirt
    /\ get_tile(<<1, 0>>) # Dirt
    /\ get_tile(<<0, 1>>) # Dirt
    /\ \E k, l \in 1 .. Len(traced) :
          /\ k # l
          /\ InsideCells(traced[k].border) = {<<0, 0>>}
          /\ InsideCells(traced[l].border) = {<<1, 1>>}

\* the midpoint of the centres of the two cells of a pair, in units of 1/128
PairMidpoint(pair) ==
    <<64 * (pair[1][1] + pair[2][1]) + 64, 64 * (pair[1][2] + pair[2][2]) + 64>>

NoRepeat(points) == \A i \in 1 .. Len(points) - 1 : points[i] # points[i + 1]

Midpoints(pairs) == [i \in 1 .. Len(pairs) |-> PairMidpoint(pairs[i])]

\* C27: two pairs pushed one after the other on a loop have different
\* midpoints, while the loop is walked and once it is traced, and no polygon of
\* borders_list, the polygons sdf_polygon folds over, has two equal consecutive
\* points (a segment of length zero).
C27_NoRepeatedPoint ==
    /\ pc \in {"loop", "emit"} => NoRepeat(Midpoints(border))
    /\ \A l \in 1 .. Len(traced) : NoRepeat(Midpoints(traced[l].border))
    /\ \A t \in DOMAIN borders_list :
          \A i \in 1 .. Len(borders_list[t]) : NoRepeat(borders_list[t][i])

\* the texture has been filled from a loop of nine points or more, all of them
\* different but the closing one
C27_Witness ==
    /\ pc = "done"
    /\ \E t \in DOMAIN borders_list :
          \E i \in 1 .. Len(borders_list[t]) :
             /\ Len(borders_list[t][i]) >= 9
             /\ Cardinality(Range(borders_list[t][i])) = Len(borders_list[t][i]) - 1

\* the MouseWheel handler of main has run
MainWheelHandled == pc \in {"main", "panic"} /\ call.op = "MouseWheel"

\* C28 as stated: whenever the MouseWheel handler of main runs, mouse.position
\* is Some and the unwrap does not panic.
C28_WheelNeverPanics == MainWheelHandled => pc # "panic" /\ mouse_position # None

\* the wheel has been turned over the window after a motion of the mouse, and
\* the view has zoomed in about the mouse
C28_Witness ==
    /\ MainWheelHandled
    /\ pc = "main"
    /\ mouse_position # None
    /\ cell_size > MainCellSize

\* the eight offsets in clockwise order on the screen (y grows downwards), each
\* 45 degrees from the one before
Clockwise ==
    <<<<0, -1>>, <<1, -1>>, <<1, 0>>, <<1, 1>>, <<0, 1>>, <<-1, 1>>, <<-1, 0>>, <<-1, -1>>>>

\* the offset k eighths of a turn clockwise from offset
Rotated(offset, k) ==
    LET i == CHOOSE j \in 1 .. 8 : Clockwise[j] = offset
    IN  Clockwise[((i - 1 + k) % 8) + 1]

\* the offset the turns lead to from offset when each is an eighth of a turn
TurnsOffset(offset, turns) ==
    LET rights == Cardinality({ i \in 1 .. Len(turns) : turns[i] = "turn_right" })
    IN  Rotated(offset, 8 + rights - (Len(turns) - rights))

\* the offset of Side::turn_right: Up -> Right -> Down -> Left -> Up
SideRightOffset(offset) ==
    CASE offset = <<0, -1>> -> <<1, 0>>
      [] offset = <<1, 0>> -> <<0, 1>>
      [] offset = <<0, 1>> -> <<-1, 0>>
      [] offset = <<-1, 0>> -> <<0, -1>>

AxisOffsets == {<<0, -1>>, <<1, 0>>, <<0, 1>>, <<-1, 0>>}

DirectionsTurned == pc = "directions" /\ call.op \in {"turn_right", "turn_left"}

\* C29 as stated: a turn_right followed by a turn_left, or a turn_left by a
\* turn_right, gives the direction back; every turn rotates the offset by 45
\* degrees; and turn_right twice on an axis direction gives the offset of
\* Side::turn_right.
C29_EighthTurns ==
    DirectionsTurned =>
        LET start == Directions_dir(call.start)
            end == Directions_dir(ret[1])
        IN  /\ call.turns \in {<<"turn_right", "turn_left">>, <<"turn_left", "turn_right">>}
                  => ret[1] = call.start
            /\ end = TurnsOffset(start, call.turns)
            /\ (call.turns = <<"turn_right", "turn_right">> /\ start \in AxisOffsets)
                  => end = SideRightOffset(start)

\* turn_right has been applied twice to Up and has given Right
C29_Witness ==
    /\ DirectionsTurned
    /\ call.start = "Up"
    /\ call.turns = <<"turn_right", "turn_right">>
    /\ ret = <<"Right">>

\* the part of C29 that the code keeps: turn_right and turn_left are mutually
\* inverse, so that two different turns in a row give back the direction they
\* were made on
C29_Inverse ==
    LET n == Len(call.turns)
        held == IF n = 2 THEN call.start
                ELSE IF call.turns[1] = "turn_right"
                     THEN Directions_turn_right(call.start)
                     ELSE Directions_turn_left(call.start)
    IN  (DirectionsTurned /\ n >= 2 /\ call.turns[n - 1] # call.turns[n]) => ret[1] = held

====
